---- MODULE Spec2Model ----
(***************************************************************************)
(* Model of altair/sphinxext/utils.py: exec_then_eval with _CatchDisplay,  *)
(* and get_docstring_and_rest with _parse_source_file.                     *)
(*                                                                         *)
(* Text is a sequence of lexemes (indivisible pieces of text, each a       *)
(* string): the triple quote, the two line-ending bytes, a few words and a *)
(* byte that is not valid UTF-8.  A source text handed to exec_then_eval   *)
(* is the sequence of top-level statements ast.parse returns for it.       *)
(***************************************************************************)
EXTENDS Integers, Sequences, FiniteSets, TLC

\* ------------------------------------------------------------------ bounds
\* Pieces a generated file is made of.
MaxPieces == 4

\* ---------------------------------------------------------------- lexemes
QQQ == "'''"
LF == "\n"
CR == "\r"
\* A byte that no UTF-8 text contains (0xFF).
BAD == "<0xFF>"
\* An identifier: a Name expression as code, plain text inside a string.
DOC == "doc"
\* An assignment statement as code, plain text inside a string.
ASSIGN == "x = 1"

\* The sentinel's three lines of text.
SE1 == "SyntaxError"
SE2 == "==========="
SE3 == "Example script with invalid Python syntax"

SYNTAX_ERROR_DOCSTRING == <<LF, SE1, LF, SE2, LF, SE3, LF>>

\* Lexemes that are identifiers outside a string literal.
Names == {DOC, SE1}

\* ------------------------------------------------------------ text helpers
RECURSIVE replace_first(_)
\* replace gone wrong: only the first CRLF is rewritten.
replace_first(s) ==
    IF s = <<>> THEN <<>>
    ELSE IF Len(s) >= 2 /\ s[1] = CR /\ s[2] = LF
         THEN <<LF>> \o SubSeq(s, 3, Len(s))
         ELSE <<s[1]>> \o replace_first(Tail(s))

RECURSIVE replace(_)
\* content.replace(b'\r\n', b'\n'): one left-to-right pass, matches do not overlap.
replace(s) ==
    IF s = <<>> THEN <<>>
    ELSE IF Len(s) >= 2 /\ s[1] = CR /\ s[2] = LF
         THEN <<LF>> \o replace(SubSeq(s, 3, Len(s)))
         ELSE <<s[1]>> \o replace(Tail(s))

\* content.decode('utf-8') raises UnicodeDecodeError exactly on a non-UTF-8 byte.
decodable(s) == \A i \in 1..Len(s) : s[i] # BAD

RECURSIVE split_last(_, _)
\* content.split('\n', maxsplit)[-1]: what follows the maxsplit-th LF, or the
\* last piece when there are fewer LFs (the whole text when there is none).
split_last(s, maxsplit) ==
    IF maxsplit = 0 \/ ~ \E i \in 1..Len(s) : s[i] = LF THEN s
    ELSE LET i == CHOOSE k \in 1..Len(s) :
                      s[k] = LF /\ \A j \in 1..(k - 1) : s[j] # LF
         IN split_last(SubSeq(s, i + 1, Len(s)), maxsplit - 1)

\* --------------------------------------------------------------- ast.parse
RECURSIVE translate_newlines(_)
\* The tokenizer's view of line ends: CRLF and a lone CR both read as LF.
translate_newlines(s) ==
    IF s = <<>> THEN <<>>
    ELSE IF s[1] = CR
         THEN <<LF>> \o translate_newlines(
                  IF Len(s) >= 2 /\ s[2] = LF THEN SubSeq(s, 3, Len(s)) ELSE Tail(s))
         ELSE <<s[1]>> \o translate_newlines(Tail(s))

count_lf(s) == Cardinality({i \in 1..Len(s) : s[i] = LF})

RECURSIVE tokens(_, _)
\* The token stream of translated text s from line ln on.  A token carries the
\* line on which it ENDS: the parsers this code targets (CPython up to 3.7)
\* stamp a multi-line string with its last line.
tokens(s, ln) ==
    IF s = <<>> THEN <<>>
    ELSE IF s[1] = LF
    THEN <<[t |-> "NEWLINE", v |-> <<>>, line |-> ln]>> \o tokens(Tail(s), ln + 1)
    ELSE IF s[1] = QQQ
    THEN IF \E j \in 2..Len(s) : s[j] = QQQ
         THEN LET j == CHOOSE k \in 2..Len(s) :
                           s[k] = QQQ /\ \A m \in 2..(k - 1) : s[m] # QQQ
                  v == SubSeq(s, 2, j - 1)
                  e == ln + count_lf(v)
              IN <<[t |-> "STRING", v |-> v, line |-> e]>>
                     \o tokens(SubSeq(s, j + 1, Len(s)), e)
         ELSE <<[t |-> "ERRORTOKEN", v |-> <<>>, line |-> ln]>>
    ELSE IF s[1] \in Names
    THEN <<[t |-> "NAME", v |-> <<>>, line |-> ln]>> \o tokens(Tail(s), ln)
    ELSE IF s[1] = ASSIGN
    THEN <<[t |-> "ASSIGN", v |-> <<>>, line |-> ln]>> \o tokens(Tail(s), ln)
    ELSE <<[t |-> "ERRORTOKEN", v |-> <<>>, line |-> ln]>> \o tokens(Tail(s), ln)

RECURSIVE concat_values(_)
concat_values(ts) ==
    IF ts = <<>> THEN <<>> ELSE Head(ts).v \o concat_values(Tail(ts))

\* One logical line of tokens as a statement.  Adjacent identifiers read as one
\* identifier, identifiers followed by the assignment as an assignment to a
\* longer name, adjacent string literals as one literal; anything else does
\* not parse.  lineno is the line stamped on the statement's first token.
statement(ts) ==
    LET n == Len(ts)
        all(T) == \A i \in 1..n : ts[i].t = T
    IN  IF all("STRING")
        THEN [ok |-> TRUE, type |-> "Expr", str |-> TRUE,
              s |-> concat_values(ts), lineno |-> ts[1].line]
        ELSE IF all("NAME")
        THEN [ok |-> TRUE, type |-> "Expr", str |-> FALSE,
              s |-> <<>>, lineno |-> ts[1].line]
        ELSE IF ts[n].t = "ASSIGN" /\ \A i \in 1..(n - 1) : ts[i].t = "NAME"
        THEN [ok |-> TRUE, type |-> "Assign", str |-> FALSE,
              s |-> <<>>, lineno |-> ts[1].line]
        ELSE [ok |-> FALSE, type |-> "", str |-> FALSE, s |-> <<>>, lineno |-> 0]

RECURSIVE statements(_)
\* The statements of a token stream, one per non-blank logical line.
statements(ts) ==
    IF ts = <<>> THEN <<>>
    ELSE IF ts[1].t = "NEWLINE" THEN statements(Tail(ts))
    ELSE LET ends == {i \in 1..Len(ts) : ts[i].t = "NEWLINE"}
             e == IF ends = {} THEN Len(ts) + 1
                  ELSE CHOOSE i \in ends : \A j \in ends : i <= j
         IN <<statement(SubSeq(ts, 1, e - 1))>>
                \o statements(SubSeq(ts, e + 1, Len(ts)))

\* The absent tree.
None == [ok |-> FALSE, body |-> <<>>]

\* ast.parse(content) on bytes: a Module with its body, or no tree (None).
\* Bytes that are not UTF-8 give no tree either: the parser reports them as a
\* SyntaxError, or raises UnicodeDecodeError itself, and in both cases the
\* decode of the same bytes raises (parse_source_file).
ast_parse(content) ==
    LET body == statements(tokens(translate_newlines(content), 1))
    IN  IF decodable(content) /\ \A i \in 1..Len(body) : body[i].ok
        THEN [ok |-> TRUE, body |-> body]
        ELSE None

\* ------------------------------------------------------ _parse_source_file
\* parse_source_file gone wrong: the line endings are left as read.
parse_source_file_raw(bytes) ==
    [raised |-> ~ decodable(bytes), node |-> ast_parse(bytes), content |-> bytes]

\* (node, content.decode('utf-8')); raised: the decode raised UnicodeDecodeError.
parse_source_file(bytes) ==
    LET content == replace(bytes)
    IN  [raised |-> ~ decodable(content), node |-> ast_parse(content),
         content |-> content]

\* -------------------------------------------------- get_docstring_and_rest
Outcome(kind, docstring, rest, lineno) ==
    [kind |-> kind, docstring |-> docstring, rest |-> rest, lineno |-> lineno]

Raises(kind) == Outcome(kind, <<>>, <<>>, 0)

\* The handler of AttributeError: the interpreter's Module has no docstring.
docstring_from_body(node, content) ==
    IF node.body # <<>> /\ node.body[1].type = "Expr" /\ node.body[1].str
    THEN LET docstring_node == node.body[1]
         IN  Outcome("record", docstring_node.s,
                     split_last(content, docstring_node.lineno),
                     docstring_node.lineno + 1)
    ELSE Outcome("record", <<>>, <<>>, 0)

\* has_docstring_attr: the interpreter's Module carries a docstring attribute
\* (the 3.7 pre-releases the comment speaks of).  There the decoded text is
\* handed to BytesIO, which takes bytes only: TypeError.
get_docstring_and_rest(bytes, has_docstring_attr) ==
    LET p == parse_source_file(bytes)
    IN  IF p.raised THEN Raises("UnicodeDecodeError")
        ELSE IF p.node = None
        THEN Outcome("record", SYNTAX_ERROR_DOCSTRING, p.content, 1)
        ELSE IF has_docstring_attr THEN Raises("TypeError")
        ELSE LET r == docstring_from_body(p.node, p.content)
             IN  IF r.docstring = <<>> THEN Raises("ValueError") ELSE r

\* ------------------------------------------------------------------ inputs
Pieces == {<<QQQ>>, <<LF>>, <<CR>>, <<CR, LF>>, <<DOC>>, <<ASSIGN>>, <<BAD>>,
           SYNTAX_ERROR_DOCSTRING}

RECURSIVE Flatten(_)
Flatten(ps) == IF ps = <<>> THEN <<>> ELSE Head(ps) \o Flatten(Tail(ps))

Files == UNION {{Flatten(ps) : ps \in [1..n -> Pieces]} : n \in 0..MaxPieces}

\* ========================================================= exec_then_eval
\* Statements a source text is made of, already parsed: an assignment
\* target = value, or a bare expression statement.  An expression is a
\* constant, a name, or the call sys.displayhook(<constant>), whose value is None.
Stmt(type, target, value) == [type |-> type, target |-> target, value |-> value]
Expr(op, arg) == [op |-> op, arg |-> arg]

NoneValue == "None"
Unbound == "<unbound>"
NameSpaceNames == {"a", "b"}
EmptyNamespace == [n \in NameSpaceNames |-> Unbound]

\* The hook objects sys.displayhook can hold.
Hook(obj, of) == [obj |-> obj, of |-> of]
DefaultHook == Hook("sys.__displayhook__", 0)
UserHook == Hook("user hook", 0)
NoHook == Hook("unset", 0)
CatchDisplay(t) == Hook("catch_display", t)

Threads == {1, 2}

\* Evaluation of an expression in a namespace: whether it raises (NameError),
\* its value, and the values it passes to sys.displayhook on the way.
eval(e, namespace) ==
    IF e.op = "Const" THEN [raised |-> FALSE, v |-> e.arg, fired |-> <<>>]
    ELSE IF e.op = "Name"
    THEN [raised |-> namespace[e.arg] = Unbound, v |-> namespace[e.arg], fired |-> <<>>]
    ELSE [raised |-> FALSE, v |-> NoneValue, fired |-> <<e.arg>>]

\* exec_single gone wrong: the expression's value is not reported.
exec_single_silent(node, namespace) == eval(node.value, namespace)

\* exec of an Interactive unit (mode='single'): the expression statement's
\* value is passed to sys.displayhook after the expression is evaluated.
exec_single(node, namespace) ==
    LET r == eval(node.value, namespace)
    IN  IF r.raised THEN r ELSE [r EXCEPT !.fired = r.fired \o <<r.v>>]

\* exec_module gone wrong: a failing statement is passed over.
exec_module_swallow(node, namespace) ==
    LET r == eval(node.value, namespace)
    IN  [raised |-> FALSE, fired |-> IF r.raised THEN <<>> ELSE r.fired,
         namespace |-> IF node.type = "Assign" /\ ~ r.raised
                       THEN [namespace EXCEPT ![node.target] = r.v]
                       ELSE namespace]

\* exec of a Module unit (mode='exec'): an assignment binds its target, an
\* expression statement's value is dropped.
exec_module(node, namespace) ==
    LET r == eval(node.value, namespace)
    IN  [raised |-> r.raised, fired |-> r.fired,
         namespace |-> IF node.type = "Assign" /\ ~ r.raised
                       THEN [namespace EXCEPT ![node.target] = r.v]
                       ELSE namespace]

\* tree.body[:-1] or tree.body, for a body that is not empty.
to_exec(body) ==
    IF body[Len(body)].type = "Expr" THEN SubSeq(body, 1, Len(body) - 1) ELSE body

\* tree.body[-1:] or [], for a body that is not empty.
to_eval(body) ==
    IF body[Len(body)].type = "Expr" THEN <<body[Len(body)]>> ELSE <<>>

\* exit_hook gone wrong: the hook is left as it is.
exit_hook_keep(old_hook_t, current) == current

\* _CatchDisplay.__exit__: sys.displayhook = self.old_hook.
exit_hook(old_hook_t, current) == old_hook_t

VARIABLES file, docattr, result, dpc

dvars == <<file, docattr, result, dpc>>

\* hook0 and namespace0 keep the hook and the namespace from before the calls,
\* trace the statements each call has executed, overlapped whether a call
\* began while another was under way.
VARIABLES code, valid, pc, idx, namespace, output, old_hook, displayhook, exc,
          ret, shown, trace, hook0, namespace0, overlapped

evars == <<code, valid, pc, idx, namespace, output, old_hook, displayhook, exc,
           ret, shown, trace, hook0, namespace0, overlapped>>

vars == <<dvars, evars>>

RECURSIVE deliver(_, _, _, _)
\* The values vs passed one after another to the hook h: a capture object
\* stores each in its output (_CatchDisplay.__call__), the other hooks show
\* every value that is not None.  Yields <<output, shown>>.
deliver(h, vs, out, sh) ==
    IF vs = <<>> THEN <<out, sh>>
    ELSE IF h.obj = "catch_display"
         THEN deliver(h, Tail(vs), [out EXCEPT ![h.of] = Head(vs)], sh)
         ELSE deliver(h, Tail(vs), out,
                      IF Head(vs) = NoneValue THEN sh ELSE sh \cup {Head(vs)})

Running(t) == pc[t] \in {"exec", "enter", "eval", "exit", "return"}

\* Lines 32-40: parse, create the capture object, split the body.
ParseAndSplit(t) ==
    /\ UNCHANGED dvars
    /\ pc[t] = "call"
    /\ overlapped' = (overlapped \/ \E u \in Threads \ {t} : Running(u))
    /\ IF ~ valid[t]
       THEN /\ pc' = [pc EXCEPT ![t] = "raised"]
            /\ exc' = [exc EXCEPT ![t] = "SyntaxError"]
            /\ UNCHANGED output
       ELSE IF code[t] = <<>>
       THEN /\ pc' = [pc EXCEPT ![t] = "raised"]
            /\ exc' = [exc EXCEPT ![t] = "IndexError"]
            /\ output' = [output EXCEPT ![t] = NoneValue]
       ELSE /\ pc' = [pc EXCEPT ![t] = "exec"]
            /\ output' = [output EXCEPT ![t] = NoneValue]
            /\ UNCHANGED exc
    /\ UNCHANGED <<code, valid, idx, namespace, old_hook, displayhook, ret, shown,
                   trace, hook0, namespace0>>

\* Lines 42-45: one statement of to_exec.
ExecNode(t) ==
    /\ UNCHANGED dvars
    /\ pc[t] = "exec"
    /\ idx[t] <= Len(to_exec(code[t]))
    /\ LET r == exec_module(to_exec(code[t])[idx[t]], namespace[t])
           d == deliver(displayhook, r.fired, output, shown)
       IN  /\ namespace' = [namespace EXCEPT ![t] = r.namespace]
           /\ output' = d[1]
           /\ shown' = d[2]
           /\ trace' = [trace EXCEPT ![t] = Append(@, idx[t])]
           /\ IF r.raised
              THEN /\ pc' = [pc EXCEPT ![t] = "raised"]
                   /\ exc' = [exc EXCEPT ![t] = "NameError"]
                   /\ UNCHANGED idx
              ELSE /\ idx' = [idx EXCEPT ![t] = @ + 1]
                   /\ UNCHANGED <<pc, exc>>
    /\ UNCHANGED <<code, valid, old_hook, displayhook, ret, hook0, namespace0, overlapped>>

\* Line 12: self.old_hook = sys.displayhook.
EnterSave(t) ==
    /\ UNCHANGED dvars
    /\ pc[t] = "exec"
    /\ idx[t] > Len(to_exec(code[t]))
    /\ old_hook' = [old_hook EXCEPT ![t] = displayhook]
    /\ pc' = [pc EXCEPT ![t] = "enter"]
    /\ UNCHANGED <<code, valid, idx, namespace, output, displayhook, exc, ret,
                   shown, trace, hook0, namespace0, overlapped>>

\* Line 13: sys.displayhook = self.
EnterSwap(t) ==
    /\ UNCHANGED dvars
    /\ pc[t] = "enter"
    /\ displayhook' = CatchDisplay(t)
    /\ pc' = [pc EXCEPT ![t] = IF to_eval(code[t]) = <<>> THEN "exit" ELSE "eval"]
    /\ UNCHANGED <<code, valid, idx, namespace, output, old_hook, exc, ret, shown,
                   trace, hook0, namespace0, overlapped>>

\* Lines 48-51: the tail, as an interactive unit.
EvalTail(t) ==
    /\ UNCHANGED dvars
    /\ pc[t] = "eval"
    /\ LET r == exec_single(to_eval(code[t])[1], namespace[t])
           d == deliver(displayhook, r.fired, output, shown)
       IN  /\ output' = d[1]
           /\ shown' = d[2]
           /\ exc' = [exc EXCEPT ![t] = IF r.raised THEN "NameError" ELSE @]
    /\ trace' = [trace EXCEPT ![t] = Append(@, Len(code[t]))]
    /\ pc' = [pc EXCEPT ![t] = "exit"]
    /\ UNCHANGED <<code, valid, idx, namespace, old_hook, displayhook, ret, hook0, namespace0,
                   overlapped>>

\* Lines 16-19: __exit__ restores the saved hook and returns False, so an
\* exception raised in the scope goes on to the caller.
Exit(t) ==
    /\ UNCHANGED dvars
    /\ pc[t] = "exit"
    /\ displayhook' = exit_hook(old_hook[t], displayhook)
    /\ pc' = [pc EXCEPT ![t] = IF exc[t] = "" THEN "return" ELSE "raised"]
    /\ UNCHANGED <<code, valid, idx, namespace, output, old_hook, exc, ret, shown,
                   trace, hook0, namespace0, overlapped>>

\* Line 53: return catch_display.output.
Return(t) ==
    /\ UNCHANGED dvars
    /\ pc[t] = "return"
    /\ ret' = [ret EXCEPT ![t] = output[t]]
    /\ pc' = [pc EXCEPT ![t] = "returned"]
    /\ UNCHANGED <<code, valid, idx, namespace, output, old_hook, displayhook, exc,
                   shown, trace, hook0, namespace0, overlapped>>

ExecNext ==
    \E t \in Threads :
        \/ ParseAndSplit(t)
        \/ ExecNode(t)
        \/ EnterSave(t)
        \/ EnterSwap(t)
        \/ EvalTail(t)
        \/ Exit(t)
        \/ Return(t)

\* ------------------------------------------------------------------ bounds
\* Statements of a source text run by one caller.
MaxStmts == 3
\* Statements of each source text when two callers run at once.
MaxConcStmts == 2

\* ------------------------------------------------------------------ inputs
Exprs == {Expr("Const", "1"), Expr("Name", "a"), Expr("Name", "b"), Expr("Hook", "2")}

Stmts == {Stmt("Assign", n, e) : n \in NameSpaceNames, e \in Exprs}
             \cup {Stmt("Expr", "", e) : e \in Exprs}

Programs == UNION {[1..n -> Stmts] : n \in 0..MaxStmts}

\* The constant thread t's source text uses.
ValueOf(t) == IF t = 1 THEN "1" ELSE "2"

ConcStmts(t) ==
    {Stmt("Assign", "a", Expr("Const", ValueOf(t))), Stmt("Expr", "", Expr("Name", "a")),
     Stmt("Expr", "", Expr("Const", ValueOf(t))), Stmt("Expr", "", Expr("Hook", ValueOf(t)))}

ConcPrograms(t) == UNION {[1..n -> ConcStmts(t)] : n \in 0..MaxConcStmts}

\* ----------------------------------------------------------- specifications
DocIdle ==
    /\ file = <<>>
    /\ docattr = FALSE
    /\ result = Raises("")
    /\ dpc = "off"

ExecIdle ==
    /\ code = [t \in Threads |-> <<>>]
    /\ valid = [t \in Threads |-> TRUE]
    /\ pc = [t \in Threads |-> "off"]
    /\ idx = [t \in Threads |-> 1]
    /\ namespace0 = EmptyNamespace
    /\ namespace = [t \in Threads |-> namespace0]
    /\ output = [t \in Threads |-> NoneValue]
    /\ old_hook = [t \in Threads |-> NoHook]
    /\ displayhook = DefaultHook
    /\ exc = [t \in Threads |-> ""]
    /\ ret = [t \in Threads |-> Unbound]
    /\ shown = {}
    /\ trace = [t \in Threads |-> <<>>]
    /\ hook0 = DefaultHook
    /\ overlapped = FALSE

\* get_docstring_and_rest on one file.
DocInit ==
    /\ file \in Files
    /\ docattr \in BOOLEAN
    /\ result = Raises("")
    /\ dpc = "ready"
    /\ ExecIdle

CallGetDocstringAndRest ==
    /\ dpc = "ready"
    /\ result' = get_docstring_and_rest(file, docattr)
    /\ dpc' = "done"
    /\ UNCHANGED <<file, docattr>>
    /\ UNCHANGED evars

DocNext == CallGetDocstringAndRest

SpecDoc == DocInit /\ [][DocNext]_vars

\* One caller of exec_then_eval (thread 1), with a fresh namespace or with one
\* that binds a already.
ExecInit ==
    /\ DocIdle
    /\ code \in {[t \in Threads |-> IF t = 1 THEN p ELSE <<>>] : p \in Programs}
    /\ valid \in {v \in [Threads -> BOOLEAN] : v[2] /\ (~ v[1] => code[1] = <<>>)}
    /\ pc = [t \in Threads |-> IF t = 1 THEN "call" ELSE "off"]
    /\ idx = [t \in Threads |-> 1]
    /\ namespace0 \in {EmptyNamespace, [EmptyNamespace EXCEPT !["a"] = "0"]}
    /\ namespace = [t \in Threads |-> namespace0]
    /\ output = [t \in Threads |-> NoneValue]
    /\ old_hook = [t \in Threads |-> NoHook]
    /\ hook0 \in {DefaultHook, UserHook}
    /\ displayhook = hook0
    /\ exc = [t \in Threads |-> ""]
    /\ ret = [t \in Threads |-> Unbound]
    /\ shown = {}
    /\ trace = [t \in Threads |-> <<>>]
    /\ overlapped = FALSE

Spec == ExecInit /\ [][ExecNext]_vars

\* Two callers of exec_then_eval at once, each with its own namespace.
ConcInit ==
    /\ DocIdle
    /\ code \in {[t \in Threads |-> IF t = 1 THEN p ELSE q] :
                    p \in ConcPrograms(1), q \in ConcPrograms(2)}
    /\ valid = [t \in Threads |-> TRUE]
    /\ pc = [t \in Threads |-> "call"]
    /\ idx = [t \in Threads |-> 1]
    /\ namespace0 = EmptyNamespace
    /\ namespace = [t \in Threads |-> namespace0]
    /\ output = [t \in Threads |-> NoneValue]
    /\ old_hook = [t \in Threads |-> NoHook]
    /\ hook0 = DefaultHook
    /\ displayhook = hook0
    /\ exc = [t \in Threads |-> ""]
    /\ ret = [t \in Threads |-> Unbound]
    /\ shown = {}
    /\ trace = [t \in Threads |-> <<>>]
    /\ overlapped = FALSE

SpecConc == ConcInit /\ [][ExecNext]_vars

\* --------------------------------------------- claims on exec_then_eval
\* What the statements mean, stated apart from the run: a name that is not
\* bound raises, an assignment binds its target, sys.displayhook(...) is None.
RefRaises(stmt, ns) == stmt.value.op = "Name" /\ ns[stmt.value.arg] = Unbound

RefValue(e, ns) ==
    IF e.op = "Const" THEN e.arg ELSE IF e.op = "Name" THEN ns[e.arg] ELSE NoneValue

RefBind(stmt, ns) ==
    IF stmt.type = "Assign" THEN [ns EXCEPT ![stmt.target] = RefValue(stmt.value, ns)]
    ELSE ns

RECURSIVE RefRun(_, _, _)
\* The statements from the k-th on, in order: the namespace they leave and the
\* index of the first one that raises (0: none does).
RefRun(stmts, ns, k) ==
    IF k > Len(stmts) THEN [ns |-> ns, at |-> 0]
    ELSE IF RefRaises(stmts[k], ns) THEN [ns |-> ns, at |-> k]
    ELSE RefRun(stmts, RefBind(stmts[k], ns), k + 1)

HasTail(body) == body # <<>> /\ body[Len(body)].type = "Expr"

BodyOf(body) == IF HasTail(body) THEN SubSeq(body, 1, Len(body) - 1) ELSE body

\* No statement before the last one calls sys.displayhook.
NoOtherFires(body) == \A i \in 1..(Len(body) - 1) : body[i].value.op # "Hook"

Finished(t) == pc[t] \in {"returned", "raised"}

\* What a call with this source text is to return.
Expected(body) ==
    IF HasTail(body)
    THEN RefValue(body[Len(body)].value, RefRun(BodyOf(body), namespace0, 1).ns)
    ELSE NoneValue

InOrder(tr) == \A k \in 1..Len(tr) : tr[k] = k

\* C1: a valid source text that ends in a bare expression E, in which no other
\* statement calls the hook and nothing raises, returns the value of E in the
\* namespace left by the statements before it, run in order.
C1_TailValueReturned ==
    (Finished(1) /\ valid[1] /\ HasTail(code[1]) /\ NoOtherFires(code[1])
        /\ RefRun(code[1], namespace0, 1).at = 0)
        => /\ pc[1] = "returned"
           /\ ret[1] = Expected(code[1])
           /\ namespace[1] = RefRun(BodyOf(code[1]), namespace0, 1).ns

C1_Witness ==
    /\ pc[1] = "returned" /\ Len(code[1]) = 3 /\ NoOtherFires(code[1])
    /\ code[1][3] = Stmt("Expr", "", Expr("Name", "b"))
    /\ code[1][1].target = "a" /\ code[1][2] = Stmt("Assign", "b", Expr("Name", "a"))
    /\ ret[1] = "1"

\* C2: a valid source text that does not end in a bare expression, and in
\* which nothing raises, returns None with every statement executed.
C2_NoTailReturnsNone ==
    (Finished(1) /\ valid[1] /\ ~ HasTail(code[1])
        /\ RefRun(code[1], namespace0, 1).at = 0)
        => /\ pc[1] = "returned"
           /\ ret[1] = NoneValue
           /\ Len(trace[1]) = Len(code[1])
           /\ namespace[1] = RefRun(code[1], namespace0, 1).ns

\* C3: with one caller, once the capture scope is left, by return or by an
\* exception, sys.displayhook is the hook that was installed when it was
\* entered, which is the hook from before the call; after the call the hook is
\* that hook however the call ended, and a call whose code raises does not return.
C3_HookRestored ==
    /\ (pc[1] \in {"return", "returned", "raised"}) => displayhook = hook0
    /\ (pc[1] \in {"return", "returned", "raised"} /\ old_hook[1] # NoHook)
           => displayhook = old_hook[1]
    /\ (pc[1] \in {"return", "returned"})
           => RefRun(code[1], namespace0, 1).at = 0
    /\ (pc[1] = "raised") => exc[1] # ""

C3_Witness ==
    /\ pc[1] = "raised" /\ exc[1] = "NameError" /\ old_hook[1] = UserHook
    /\ displayhook = UserHook /\ Len(trace[1]) = Len(code[1])

\* C8: statements run one at a time in source order; when statement i of the
\* body raises, the call ends there with that error: nothing after i runs, no
\* value is returned, the bindings made before i stay, and the hook was never
\* swapped.
C8_BodyFailurePropagates ==
    /\ InOrder(trace[1])
    /\ LET r == RefRun(BodyOf(code[1]), namespace0, 1)
       IN  (valid[1] /\ r.at # 0)
               => /\ Len(trace[1]) <= r.at
                  /\ ret[1] = Unbound
                  /\ old_hook[1] = NoHook
                  /\ displayhook = hook0
                  /\ (Len(trace[1]) = r.at)
                         => /\ pc[1] = "raised"
                            /\ exc[1] = "NameError"
                            /\ namespace[1] = r.ns

C8_Witness ==
    /\ pc[1] = "raised" /\ Len(trace[1]) = 2 /\ Len(code[1]) = 3
    /\ namespace[1] # namespace0 /\ namespace0 # EmptyNamespace /\ old_hook[1] = NoHook

\* C10: two calls that do not overlap leave sys.displayhook as it was before
\* them and each returns what its own source text yields.  (Calls that do
\* overlap can end otherwise: C10_RaceReached.)
C10_SerialCallsSafe ==
    ((\A t \in Threads : Finished(t)) /\ ~ overlapped)
        => /\ displayhook = hook0
           /\ \A t \in Threads : pc[t] = "returned" => ret[t] = Expected(code[t])

\* Each source text is one bare constant.  Both calls are over, they
\* overlapped, sys.displayhook is left holding one call's capture object, and
\* a call has returned the other call's tail value.
C10_RaceReached ==
    /\ \A t \in Threads :
           /\ code[t] = <<Stmt("Expr", "", Expr("Const", ValueOf(t)))>>
           /\ pc[t] = "returned"
    /\ overlapped
    /\ displayhook.obj = "catch_display"
    /\ \E t \in Threads : ret[t] # Expected(code[t]) /\ ret[t] = ValueOf(3 - t)

\* ------------------------------------------------- claims on the splitter
\* The file's content with every CRLF replaced by LF, stated on its own: the
\* result has the bytes of s in order, less each CR that an LF follows.
WithoutCRLF(s) ==
    LET keep == {i \in 1..Len(s) : ~ (s[i] = CR /\ i < Len(s) /\ s[i + 1] = LF)}
        RECURSIVE pick(_)
        pick(i) == IF i > Len(s) THEN <<>>
                   ELSE (IF i \in keep THEN <<s[i]>> ELSE <<>>) \o pick(i + 1)
    IN  pick(1)

HasCRLF(s) == \E i \in 1..(Len(s) - 1) : s[i] = CR /\ s[i + 1] = LF

HasCRCRLF(s) ==
    \E i \in 1..(Len(s) - 2) : s[i] = CR /\ s[i + 1] = CR /\ s[i + 2] = LF

\* The normalized content parses.
Parses(f) == ast_parse(WithoutCRLF(f)) # None

\* The first statement of the parsed content is a bare string literal that is
\* not the empty string.
LeadingDocstring(f) ==
    LET body == ast_parse(WithoutCRLF(f)).body
    IN  body # <<>> /\ body[1].type = "Expr" /\ body[1].str /\ body[1].s # <<>>

\* C4, as stated: every file whose normalized content fails to parse yields
\* (SYNTAX_ERROR_DOCSTRING, the normalized content, 1) and no exception.
C4_Original ==
    (dpc = "done" /\ ~ Parses(file))
        => result = Outcome("record", SYNTAX_ERROR_DOCSTRING, WithoutCRLF(file), 1)

\* C4, amended: every file that is valid UTF-8 and whose normalized content
\* fails to parse yields (SYNTAX_ERROR_DOCSTRING, the normalized content, 1)
\* and no exception.
C4_SentinelOnSyntaxError ==
    (dpc = "done" /\ decodable(file) /\ ~ Parses(file))
        => result = Outcome("record", SYNTAX_ERROR_DOCSTRING, WithoutCRLF(file), 1)

C4_Witness ==
    /\ dpc = "done" /\ decodable(file) /\ ~ Parses(file) /\ HasCRLF(file)
    /\ result.kind = "record" /\ result.lineno = 1

\* C5: every syntactically valid file whose first statement is not a bare,
\* non-empty string literal fails with the 'could not find docstring' error.
C5_MissingDocstring ==
    (dpc = "done" /\ decodable(file) /\ Parses(file) /\ ~ LeadingDocstring(file))
        => result.kind = "ValueError"

\* The first n lines of s, each with its LF; all of s when it has fewer.
RECURSIVE Header(_, _)
Header(s, n) ==
    IF n = 0 \/ s = <<>> THEN <<>>
    ELSE <<s[1]>> \o Header(Tail(s), IF s[1] = LF THEN n - 1 ELSE n)

\* C6: for a file with a valid leading docstring, the first start_line - 1
\* lines of the normalized content followed by rest are the normalized content.
C6_RoundTrip ==
    (dpc = "done" /\ Parses(file) /\ result.kind = "record")
        => Header(WithoutCRLF(file), result.lineno - 1) \o result.rest
               = WithoutCRLF(file)

\* C7, as stated: a file yields the outcome of the same file with every CRLF
\* replaced by LF, whatever its bytes.
C7_Original ==
    dpc = "done" => result = get_docstring_and_rest(WithoutCRLF(file), docattr)

\* C7, amended: a file in which no CR stands immediately before a CRLF yields
\* the outcome of the same file with every CRLF replaced by LF.
C7_LineEndings ==
    (dpc = "done" /\ ~ HasCRCRLF(file))
        => result = get_docstring_and_rest(WithoutCRLF(file), docattr)

C7_Witness ==
    /\ dpc = "done" /\ HasCRLF(file) /\ ~ HasCRCRLF(file)
    /\ result.kind = "record" /\ Parses(file) /\ result.rest # <<>>

\* C9: a record whose docstring is the sentinel comes from a file that failed
\* to parse, never from a syntactically valid one.
C9_SentinelOnlyOnFailure ==
    (dpc = "done" /\ result.kind = "record"
        /\ result.docstring = SYNTAX_ERROR_DOCSTRING) => ~ Parses(file)
====
